---- MODULE Spec2Model ----
(***************************************************************************)
(* MiraIO: an HTTP service that issues pre-signed PUT URLs for an          *)
(* S3-compatible object store.  The model covers the process entry point   *)
(* (both entry points of the repository: the one logging through the       *)
(* standard library and the one logging through pkg/utils), the unit-test  *)
(* harness that serves the handler without main, the /presign handler, the *)
(* utils logger, and the storage layer the issued URLs are used against.   *)
(***************************************************************************)
EXTENDS Integers, Sequences, FiniteSets, TLC

(* ------------------------------- bounds -------------------------------- *)

\* number of /presign requests a run receives
MaxReqs == 2
\* the clock runs from 0 to MaxClock, in seconds
MaxClock == 120
\* seconds the clock advances in one step
TickStep == 60

(* ------------------------- program constants --------------------------- *)

\* time.Minute, in seconds: the expiry passed to PresignedPutObject
Minute == 60
StatusOK == 200
StatusBadRequest == 400
StatusInternalServerError == 500
\* the storage layer's answer to a PUT whose signature has expired
StatusForbidden == 403

MsgMissing == "Missing filename or type"
MsgPresign == "Could not generate presigned URL"

(* ------------------------------- inputs -------------------------------- *)

Reqs == 1..MaxReqs

\* values of the filename and type query parameters ("" is present-but-empty)
Filenames == {"", "a.txt", "dir/b c.txt"}
ContentTypes == {"", "text/plain", "image/png"}
ParamNames == {"filename", "type"}

\* a query string: each of the two parameters is absent or present with a value
Queries ==
  { q \in UNION { [D -> Filenames \cup ContentTypes] : D \in SUBSET ParamNames } :
      /\ ("filename" \in DOMAIN q => q["filename"] \in Filenames)
      /\ ("type" \in DOMAIN q => q["type"] \in ContentTypes) }

\* the environments the process is started in: the values of the variables
\* main reads with os.Getenv
Envs ==
  { [endpoint |-> "localhost:9000", useSSL |-> "false", bucket |-> "uploads",
     publicURL |-> "http://localhost:9000"],
    [endpoint |-> "s3.example.com", useSSL |-> "true", bucket |-> "test-bucket",
     publicURL |-> "https://cdn.example.com"] }

\* errors of the collaborators
ConfigErrs == {"open .env: no such file or directory"}
ClientErrs == {"Endpoint url cannot have fully qualified paths."}
BindErrs == {"listen tcp: bind: address already in use"}
SignErrs == {"dial tcp: connection refused", "Access Denied."}

\* the two entry points, and the unit tests' harness (setupTestEnvironment and
\* a gin.New() router), which runs the handler without main
Builds == {"stdlog", "utils", "test"}

VARIABLES
  build,        \* which entry point the binary was built from
  pc,           \* position of main
  exitCode,     \* exit status of the process, -1 while it runs
  loggerReady,  \* the loggers of pkg/utils have been created by InitLogger
  log,          \* everything written to the log sinks, in order
  minioClient,  \* the signing client handle (NilClient before construction)
  bucketName,
  publicURL,
  clock,        \* wall-clock time in seconds
  req,          \* the /presign requests of the run
  objects,      \* paths of the objects in the storage bucket
  lastPut,      \* the latest PUT made to an issued URL, and its outcome
  used,         \* requests whose URL has carried an accepted PUT
  cause         \* why the process exited ("" while it runs)

vars == <<build, pc, exitCode, loggerReady, log, minioClient, bucketName,
          publicURL, clock, req, objects, lastPut, used, cause>>

(* ------------------------------- logging ------------------------------- *)

\* one line of the log: who wrote it, the message, the error value it carries
\* ("" when none) and the request it belongs to (0 for the process itself)
Entry(level, msg, detail, r) ==
  [level |-> level, msg |-> msg, detail |-> detail, req |-> r]

\* log.Fatal / log.Fatalln of the standard library: write and exit(1)
StdFatal(msg, detail) ==
  /\ log' = Append(log, Entry("STD", msg, detail, 0))
  /\ pc' = "exited"
  /\ exitCode' = 1

\* a method call on a nil *log.Logger: the process panics with status 2
NilLoggerPanic ==
  /\ log' = Append(log, Entry("PANIC", "nil pointer dereference", "", 0))
  /\ pc' = "exited"
  /\ exitCode' = 2

\* utils.LogFatal: fatalLogger.Output, then os.Exit(1)
LogFatal(msg, detail) ==
  IF loggerReady
    THEN /\ log' = Append(log, Entry("FATAL", msg, detail, 0))
         /\ pc' = "exited"
         /\ exitCode' = 1
    ELSE NilLoggerPanic

\* utils.LogInfo: infoLogger.Output
LogInfo(msg, nextpc) ==
  IF loggerReady
    THEN /\ log' = Append(log, Entry("INFO", msg, "", 0))
         /\ pc' = nextpc
         /\ exitCode' = exitCode
    ELSE NilLoggerPanic

(* ------------------------------- startup ------------------------------- *)

NilClient == [endpoint |-> "", secure |-> FALSE, set |-> FALSE]

\* minio.New(endpoint, &minio.Options{Secure: useSSL})
NewClient(endpoint, useSSL) ==
  [endpoint |-> endpoint, secure |-> (useSSL = "true"), set |-> TRUE]

NoPut == [req |-> 0, at |-> 0, contentType |-> "", status |-> 0]

NoQuery == [p \in {} |-> ""]

IdleReq ==
  [state |-> "idle", query |-> NoQuery, calls |-> << >>, result |-> << >>,
   resps |-> << >>, readsClient |-> FALSE]

Init ==
  /\ build \in Builds
  /\ pc = IF build = "test" THEN "Setup" ELSE "LoadConfig"
  /\ exitCode = -1
  /\ loggerReady = FALSE
  /\ log = << >>
  /\ minioClient = NilClient
  /\ bucketName = ""
  /\ publicURL = ""
  /\ clock = 0
  /\ req = [r \in Reqs |-> IdleReq]
  /\ objects = {}
  /\ lastPut = NoPut
  /\ used = {}
  /\ cause = ""

\* godotenv.Load succeeds
LoadConfigOk ==
  /\ pc = "LoadConfig"
  /\ pc' = IF build = "utils" THEN "InitLogger" ELSE "NewClient"
  /\ UNCHANGED <<build, exitCode, loggerReady, log, minioClient, bucketName,
                 publicURL, clock, req, objects, lastPut, used, cause>>

\* godotenv.Load fails
LoadConfigFail ==
  /\ pc = "LoadConfig"
  /\ cause' = "config"
  /\ \E e \in ConfigErrs :
       IF build = "utils"
         THEN LogFatal("Error loading .env file: %v", e)
         ELSE StdFatal("Error loading .env file", "")
  /\ UNCHANGED <<build, loggerReady, minioClient, bucketName, publicURL,
                 clock, req, objects, lastPut, used>>

\* utils.InitLogger: the log directory and file are created
InitLoggerOk ==
  /\ pc = "InitLogger"
  /\ cause' = cause
  /\ loggerReady' = TRUE
  /\ log' = Append(log, Entry("INFO", "Logger initialized with log file: %s", "", 0))
  /\ pc' = "NewClient"
  /\ UNCHANGED <<build, exitCode, minioClient, bucketName, publicURL, clock,
                 req, objects, lastPut, used>>

\* utils.InitLogger: os.MkdirAll or os.OpenFile fails
InitLoggerFail ==
  /\ pc = "InitLogger"
  /\ cause' = "logger"
  /\ \E m \in {"Failed to create log directory: %v", "Failed to open log file: %v"} :
       log' = Append(log, Entry("STDOUT", m, "permission denied", 0))
  /\ pc' = "exited"
  /\ exitCode' = 1
  /\ UNCHANGED <<build, loggerReady, minioClient, bucketName, publicURL,
                 clock, req, objects, lastPut, used>>

\* main reads the environment and constructs the client
NewClientOk ==
  /\ pc = "NewClient"
  /\ cause' = cause
  /\ \E env \in Envs :
       /\ bucketName' = env.bucket
       /\ publicURL' = env.publicURL
       /\ minioClient' = NewClient(env.endpoint, env.useSSL)
  /\ pc' = "Run"
  /\ UNCHANGED <<build, exitCode, loggerReady, log, clock, req, objects, lastPut, used>>

\* minio.New returns an error
NewClientFail ==
  /\ pc = "NewClient"
  /\ cause' = "client"
  /\ \E env \in Envs :
       /\ bucketName' = env.bucket
       /\ publicURL' = env.publicURL
  /\ minioClient' = NilClient
  /\ \E e \in ClientErrs :
       IF build = "utils"
         THEN LogFatal("Error initializing MinIO client: %v", e)
         ELSE StdFatal("", e)
  /\ UNCHANGED <<build, loggerReady, clock, req, objects, lastPut, used>>

\* main, from the "Server running" line to router.Run having bound the listener
RunOk ==
  /\ pc = "Run"
  /\ cause' = cause
  /\ IF build = "utils"
       THEN LogInfo("Server running on %s", "serving")
       ELSE /\ log' = Append(log, Entry("STDOUT", "Server running on :5000", "", 0))
            /\ pc' = "serving"
            /\ exitCode' = exitCode
  /\ UNCHANGED <<build, loggerReady, minioClient, bucketName, publicURL,
                 clock, req, objects, lastPut, used>>

\* router.Run returns an error: the listener cannot bind
RunFail ==
  /\ pc = "Run"
  /\ cause' = "bind"
  /\ \E e \in BindErrs :
       IF build = "utils"
         THEN /\ loggerReady
              /\ log' = log \o << Entry("INFO", "Server running on %s", "", 0),
                                  Entry("FATAL", "Error starting server: %v", e, 0) >>
              /\ pc' = "exited"
              /\ exitCode' = 1
         ELSE /\ log' = log \o << Entry("STDOUT", "Server running on :5000", "", 0),
                                  Entry("STD", "", e, 0) >>
              /\ pc' = "exited"
              /\ exitCode' = 1
  /\ UNCHANGED <<build, loggerReady, minioClient, bucketName, publicURL,
                 clock, req, objects, lastPut, used>>

\* setupTestEnvironment, then the test's router serves requests: the client
\* handle is nil when minio.New fails
SetupTest ==
  /\ pc = "Setup"
  /\ bucketName' = "test-bucket"
  /\ publicURL' = "http://localhost:9000"
  /\ \/ minioClient' = NewClient("localhost:9000", "false")
     \/ minioClient' = NilClient
  /\ pc' = "serving"
  /\ UNCHANGED <<build, exitCode, loggerReady, log, clock, req, objects,
                 lastPut, used, cause>>

(* ------------------------- the signing client -------------------------- *)

NoURL == [scheme |-> "", host |-> "", path |-> "", method |-> "", date |-> 0,
          expires |-> 0]

\* the URL PresignedPutObject returns at time now: the object's address on the
\* client's endpoint, query-signed with the signing time and the expiry
SignedURL(client, args, now) ==
  [scheme |-> IF client.secure THEN "https" ELSE "http",
   host |-> client.endpoint,
   path |-> "/" \o args.bucket \o "/" \o args.key,
   method |-> args.method,
   date |-> now,
   expires |-> args.expires]

\* (*url.URL).String()
URLString(u) ==
  u.scheme \o "://" \o u.host \o u.path \o "?X-Amz-Date=" \o ToString(u.date)
    \o "&X-Amz-Expires=" \o ToString(u.expires)

\* StoreAfterPresign of a handler that uploads a placeholder object
StoreAfterPresignWrites(store, args) ==
  store \cup {"/" \o args.bucket \o "/" \o args.key}

\* the bucket after a presign call: signing stores nothing
StoreAfterPresign(store, args) == store

(* ----------------------------- the handler ----------------------------- *)

\* c.Query(key): the parameter's value, "" when it is absent
Query(q, key) == IF key \in DOMAIN q THEN q[key] ELSE ""

\* Missing with the check of the type parameter forgotten
MissingFilenameOnly(filename, contentType) == filename = ""

\* Missing of a handler that also refuses filenames with a path separator
MissingOrUnsafe(filename, contentType) ==
  filename = "" \/ contentType = "" \/ filename = "dir/b c.txt"

\* the guard of the 400 branch
Missing(filename, contentType) == filename = "" \/ contentType = ""

\* c.JSON(status, body)
Response(status, body) == [status |-> status, body |-> body]

BadRequestResponse == Response(StatusBadRequest, [error |-> MsgMissing])

\* SignFailResponse echoing the signing client's error to the caller
SignFailResponseLeaky(err) == Response(StatusInternalServerError, [error |-> err])

\* SignFailResponse answering 502 Bad Gateway
SignFailResponseBadGateway(err) == Response(502, [error |-> MsgPresign])

SignFailResponse(err) == Response(StatusInternalServerError, [error |-> MsgPresign])

\* PublicFileURL with the bucket segment left out
PublicFileURLNoBucket(filename) == publicURL \o "/" \o filename

\* fmt.Sprintf("%s/%s/%s", publicURL, bucketName, filename)
PublicFileURL(filename) == publicURL \o "/" \o bucketName \o "/" \o filename

SuccessResponse(u, filename) ==
  Response(StatusOK, [url |-> URLString(u), publicUrl |-> PublicFileURL(filename)])

\* PresignArgs with a five-minute expiry
PresignArgsLong(filename, contentType) ==
  [method |-> "PUT", bucket |-> bucketName, key |-> filename, expires |-> 5 * Minute]

\* PresignArgs with the requested content type bound into the signed request
PresignArgsTyped(filename, contentType) ==
  [method |-> "PUT", bucket |-> bucketName, key |-> filename, expires |-> Minute,
   contentType |-> contentType]

\* the arguments of minioClient.PresignedPutObject(ctx, bucketName, filename, time.Minute)
PresignArgs(filename, contentType) ==
  [method |-> "PUT", bucket |-> bucketName, key |-> filename, expires |-> Minute]

\* what the handler writes to the log when signing fails with err: nothing
SignFailLog(r, err) == << >>

\* the access line gin's Logger middleware writes once the handler has
\* returned; the tests' gin.New() router has no middleware
AccessLog(r) ==
  IF build = "test" THEN << >> ELSE << Entry("GIN", "GET /presign", "", r) >>

\* HandlerFilename kept in a variable shared by the invocations: the filename
\* of the request received last
SharedFilename(r) ==
  LET last == CHOOSE p \in Reqs :
                /\ req[p].state # "idle"
                /\ \A n \in Reqs : n > p => req[n].state = "idle"
  IN Query(req[last].query, "filename")

\* the filename a handler invocation works with: its own local variable
HandlerFilename(r) == Query(req[r].query, "filename")

\* FailedRequest of a handler that signs once more after a first failure
FailedRequestRetry(rq, err) ==
  IF Len(rq.calls) < 2
    THEN [rq EXCEPT !.calls = Append(@, rq.calls[1])]
    ELSE [rq EXCEPT !.state = "done",
                    !.result = << [ok |-> FALSE, url |-> NoURL, err |-> err, at |-> 0] >>,
                    !.resps = Append(@, SignFailResponse(err))]

\* the request once the signing client has returned err
FailedRequest(rq, err) ==
  [rq EXCEPT !.state = "done",
             !.result = << [ok |-> FALSE, url |-> NoURL, err |-> err, at |-> 0] >>,
             !.resps = Append(@, SignFailResponse(err))]

\* presignHandler up to the call of the signing client
HandlerBegin(r, q) ==
  /\ pc = "serving"
  /\ req[r].state = "idle"
  /\ \A p \in Reqs : p < r => req[p].state # "idle"
  /\ LET filename == Query(q, "filename")
         contentType == Query(q, "type")
     IN IF Missing(filename, contentType)
          THEN /\ req' = [req EXCEPT ![r] =
                            [@ EXCEPT !.state = "done", !.query = q,
                                      !.resps = Append(@, BadRequestResponse)]]
               /\ log' = log \o AccessLog(r)
               /\ UNCHANGED <<pc, exitCode, cause>>
          ELSE IF minioClient.set
            THEN /\ req' = [req EXCEPT ![r] =
                              [@ EXCEPT !.state = "signing", !.query = q,
                                        !.readsClient = TRUE,
                                        !.calls = Append(@, PresignArgs(filename, contentType))]]
                 /\ log' = log
                 /\ UNCHANGED <<pc, exitCode, cause>>
            \* a method call on the nil client: the goroutine panics, and
            \* nothing recovers it
            ELSE /\ req' = [req EXCEPT ![r] =
                              [@ EXCEPT !.state = "panicked", !.query = q,
                                        !.readsClient = TRUE,
                                        !.calls = Append(@, PresignArgs(filename, contentType))]]
                 /\ log' = Append(log, Entry("PANIC", "nil client", "", r))
                 /\ pc' = "exited"
                 /\ exitCode' = 2
                 /\ cause' = "panic"
  /\ UNCHANGED <<build, loggerReady, minioClient, bucketName, publicURL,
                 clock, objects, lastPut, used>>

\* presignHandler from the return of the signing client to its own return
SignReturn(r) ==
  /\ pc = "serving"
  /\ req[r].state = "signing"
  /\ LET args == req[r].calls[Len(req[r].calls)]
         filename == HandlerFilename(r)
     IN /\ \/ LET u == SignedURL(minioClient, args, clock)
              IN /\ req' = [req EXCEPT ![r] =
                              [@ EXCEPT !.state = "done",
                                        !.result = << [ok |-> TRUE, url |-> u, err |-> "",
                                                       at |-> clock] >>,
                                        !.resps = Append(@, SuccessResponse(u, filename))]]
                 /\ log' = log \o AccessLog(r)
           \/ \E e \in SignErrs :
                 /\ req' = [req EXCEPT ![r] = FailedRequest(@, e)]
                 /\ log' = log \o SignFailLog(r, e) \o AccessLog(r)
        /\ objects' = StoreAfterPresign(objects, args)
  /\ UNCHANGED <<build, pc, exitCode, loggerReady, minioClient, bucketName,
                 publicURL, clock, lastPut, used, cause>>

(* -------------------------- the storage layer -------------------------- *)

\* the storage layer accepts a signed PUT until its validity window has elapsed
StorageAccepts(u, now) == u.method = "PUT" /\ now - u.date <= u.expires

\* the holder of the URL issued to request r PUTs to it with Content-Type ct
Put(r, ct) ==
  /\ req[r].state = "done"
  /\ Len(req[r].result) > 0
  /\ req[r].result[1].ok
  /\ LET u == req[r].result[1].url
         ok == StorageAccepts(u, clock)
     IN /\ lastPut' = [req |-> r, at |-> clock, contentType |-> ct,
                       status |-> IF ok THEN StatusOK ELSE StatusForbidden]
        /\ objects' = IF ok THEN objects \cup {u.path} ELSE objects
        /\ used' = IF ok THEN used \cup {r} ELSE used
  /\ lastPut' # lastPut
  /\ UNCHANGED <<build, pc, exitCode, loggerReady, log, minioClient,
                 bucketName, publicURL, clock, req, cause>>

Tick ==
  /\ clock + TickStep <= MaxClock
  /\ clock' = clock + TickStep
  /\ UNCHANGED <<build, pc, exitCode, loggerReady, log, minioClient,
                 bucketName, publicURL, req, objects, lastPut, used, cause>>

Begin == \E r \in Reqs, q \in Queries : HandlerBegin(r, q)
Return == \E r \in Reqs : SignReturn(r)
Upload == \E r \in Reqs, ct \in ContentTypes \ {""} : Put(r, ct)

Next ==
  \/ LoadConfigOk
  \/ LoadConfigFail
  \/ InitLoggerOk
  \/ InitLoggerFail
  \/ NewClientOk
  \/ NewClientFail
  \/ RunOk
  \/ RunFail
  \/ SetupTest
  \/ Begin
  \/ Return
  \/ Upload
  \/ Tick

Spec == Init /\ [][Next]_vars

(* ------------------------------ properties ----------------------------- *)

\* parameter k is absent from query q, or present and empty
ParamMissing(q, k) == k \notin DOMAIN q \/ q[k] = ""

Received(r) == req[r].state # "idle"
Done(r) == req[r].state = "done"
\* the handler of r called the signing client and the call returned a URL / an error
Signed(r) == Done(r) /\ Len(req[r].result) = 1 /\ req[r].result[1].ok
SignFailed(r) == Done(r) /\ Len(req[r].result) = 1 /\ ~req[r].result[1].ok

\* C1: a request whose filename or type parameter is absent or empty is answered
\* with status 400 and the body {"error": "Missing filename or type"}.
C1_MissingParameters ==
  \A r \in Reqs :
    (Received(r) /\ (ParamMissing(req[r].query, "filename")
                       \/ ParamMissing(req[r].query, "type")))
      => /\ Done(r)
         /\ req[r].resps =
              << [status |-> 400, body |-> [error |-> "Missing filename or type"]] >>

\* a request with the filename absent and a non-empty type has been answered
C1_Witness ==
  \E r \in Reqs :
    /\ Done(r)
    /\ DOMAIN req[r].query = {"type"}
    /\ req[r].query["type"] = "text/plain"
    /\ req[r].resps[1].status = 400

\* C2: a request with non-empty filename and type whose signing call returned a
\* URL is answered with status 200, url the string form of that URL and
\* publicUrl = publicURL + "/" + bucketName + "/" + filename.
C2_Success ==
  \A r \in Reqs :
    Signed(r)
      => req[r].resps =
           << [status |-> 200,
               body |-> [url |-> URLString(req[r].result[1].url),
                         publicUrl |-> publicURL \o "/" \o bucketName \o "/"
                                         \o req[r].query["filename"]]] >>

C2_Witness ==
  \E r \in Reqs :
    /\ Signed(r)
    /\ req[r].query["filename"] = "dir/b c.txt"
    /\ req[r].resps[1].body.publicUrl = "https://cdn.example.com/test-bucket/dir/b c.txt"

\* C3: a request whose signing call returned an error is answered with status
\* 500 and the body {"error": "Could not generate presigned URL"}: no url, no
\* publicUrl, and nothing of the error value.
C3_SignFailure ==
  \A r \in Reqs :
    SignFailed(r)
      => /\ Len(req[r].resps) = 1
         /\ req[r].resps[1].status = 500
         /\ DOMAIN req[r].resps[1].body = {"error"}
         /\ req[r].resps[1].body.error = "Could not generate presigned URL"
         /\ \A f \in DOMAIN req[r].resps[1].body :
              req[r].resps[1].body[f] # req[r].result[1].err

C3_Witness ==
  \E r \in Reqs :
    /\ SignFailed(r)
    /\ req[r].result[1].err = "Access Denied."
    /\ req[r].resps[1].status = 500

\* C4: whenever the signing client returned an error, the log holds an entry
\* for that request carrying the error.
C4_ErrorLogged ==
  \A r \in Reqs :
    SignFailed(r)
      => \E i \in 1..Len(log) :
           log[i].req = r /\ log[i].detail = req[r].result[1].err

\* C5: every call of the signing client asks for a PUT URL for the configured
\* bucket, the key being the filename parameter as received and the expiry
\* one minute.
C5_SignCall ==
  \A r \in Reqs :
    \A i \in 1..Len(req[r].calls) :
      req[r].calls[i] = [method |-> "PUT", bucket |-> bucketName,
                         key |-> req[r].query["filename"], expires |-> 60]

C5_Witness ==
  \E r \in Reqs :
    /\ Len(req[r].calls) = 1
    /\ req[r].calls[1].key = "dir/b c.txt"
    /\ req[r].query["type"] = "image/png"

\* seconds between the issuance of the URL the latest PUT used and that PUT
PutAge == lastPut.at - req[lastPut.req].result[1].at

\* C6: a PUT to an issued URL succeeds when made within one minute of the
\* issuance and is rejected by the storage layer (403/400) when made later;
\* the PUT neither passes through the service nor changes its state.
C6_ValidityWindow ==
  /\ [](lastPut.req # 0 =>
          /\ PutAge <= 60 => lastPut.status = 200
          /\ PutAge > 60 => lastPut.status \in {403, 400})
  /\ [][lastPut' # lastPut => UNCHANGED <<req, log, pc, exitCode>>]_vars

\* a PUT made exactly one minute after issuance was accepted, and the URL is
\* then refused once the window has elapsed
C6_Witness ==
  /\ lastPut.req # 0
  /\ lastPut.status = 403
  /\ PutAge > 60
  /\ lastPut.req \in used

\* requests r1 and r2 are two successful calls with the same filename and type
SameCall(r1, r2) ==
  /\ r1 # r2
  /\ Signed(r1)
  /\ Signed(r2)
  /\ req[r1].query["filename"] = req[r2].query["filename"]
  /\ req[r1].query["type"] = req[r2].query["type"]

\* C7 as stated: two successful calls with the same filename and type return
\* two distinct signed URLs.
C7_AlwaysDistinct ==
  \A r1, r2 \in Reqs :
    SameCall(r1, r2) => req[r1].resps[1].body.url # req[r2].resps[1].body.url

\* C7 amended: two successful calls with the same filename and type return
\* distinct URLs exactly when they were signed at different times; each URL is
\* accepted for one minute from its own issuance, whether or not another URL
\* for the same object has been issued or used.
C7_DistinctWhenSignedLater ==
  /\ \A r1, r2 \in Reqs :
       SameCall(r1, r2) =>
         (req[r1].resps[1].body.url # req[r2].resps[1].body.url
            <=> req[r1].result[1].at # req[r2].result[1].at)
  /\ lastPut.req # 0 => (lastPut.status = 200 <=> PutAge <= 60)

\* the second of two URLs for the same object is accepted after the first was
\* used and its window has elapsed
C7_Witness ==
  \E r1, r2 \in Reqs :
    /\ SameCall(r1, r2)
    /\ r1 \in used
    /\ lastPut.req = r2
    /\ lastPut.status = 200
    /\ lastPut.at - req[r1].result[1].at > 60

\* C8: two requests with the same filename and different non-empty types pass
\* the same arguments to the signing client and get the same publicUrl, and a
\* PUT within the validity window is accepted whatever its Content-Type.
C8_TypeNotEnforced ==
  /\ \A r1, r2 \in Reqs :
       (/\ Len(req[r1].calls) = 1
        /\ Len(req[r2].calls) = 1
        /\ req[r1].query["filename"] = req[r2].query["filename"]
        /\ req[r1].query["type"] # req[r2].query["type"])
         => /\ req[r1].calls = req[r2].calls
            /\ (Signed(r1) /\ Signed(r2))
                 => req[r1].resps[1].body.publicUrl = req[r2].resps[1].body.publicUrl
  /\ (lastPut.req # 0 /\ PutAge <= 60) => lastPut.status = 200

\* a URL requested for one type has carried an accepted PUT of another type
C8_Witness ==
  \E r1, r2 \in Reqs :
    /\ Signed(r1)
    /\ Signed(r2)
    /\ req[r1].query["filename"] = req[r2].query["filename"]
    /\ req[r1].query["type"] # req[r2].query["type"]
    /\ lastPut.req = r1
    /\ lastPut.contentType # req[r1].query["type"]
    /\ lastPut.status = 200

\* C9: no step of the handler changes the bucket; an object appears only with
\* an accepted PUT to an issued URL, and it is that URL's object.
C9_PresignStoresNothing ==
  /\ [][(\E r \in Reqs : req'[r] # req[r]) => objects' = objects]_vars
  /\ [][objects' # objects =>
          /\ lastPut' # lastPut
          /\ lastPut'.status = 200
          /\ objects' = objects \cup {req[lastPut'.req].result[1].url.path}]_vars

\* every request has been answered, one of them with a URL, and the bucket is empty
C9_Witness ==
  /\ \A r \in Reqs : Done(r)
  /\ \E r \in Reqs : Signed(r)
  /\ \E r \in Reqs : SignFailed(r) \/ req[r].resps[1].status = 400
  /\ objects = {}

\* the log holds a fatal entry naming the failure the process exited with
FailureLogged ==
  \E i \in 1..Len(log) :
    /\ log[i].level \in {"STD", "FATAL"}
    /\ cause = "config" =>
         log[i].msg \in {"Error loading .env file", "Error loading .env file: %v"}
    /\ cause = "client" => log[i].detail \in ClientErrs
    /\ cause = "bind" => log[i].detail \in BindErrs

\* C10: when configuration loading, client construction or binding the
\* listener fails, the failure is logged, the process exits non-zero and no
\* request is served; requests are served only after configuration loading
\* and client construction succeeded.
C10_StartupFatal ==
  /\ cause \in {"config", "client", "bind"} =>
       /\ pc = "exited"
       /\ exitCode \notin {-1, 0}
       /\ FailureLogged
       /\ \A r \in Reqs : ~Received(r)
  /\ build # "test" =>
       \A r \in Reqs :
         Received(r) => cause = "" /\ pc = "serving" /\ minioClient.set

\* the query of r lacks a parameter, or has it empty
Invalid(r) ==
  ParamMissing(req[r].query, "filename") \/ ParamMissing(req[r].query, "type")

\* the response an invocation gives when it runs alone with r's parameters and
\* r's signing outcome
AloneResponse(r) ==
  IF Invalid(r)
    THEN [status |-> 400, body |-> [error |-> "Missing filename or type"]]
    ELSE IF ~req[r].result[1].ok
      THEN [status |-> 500, body |-> [error |-> "Could not generate presigned URL"]]
      ELSE [status |-> 200,
            body |-> [url |-> URLString(req[r].result[1].url),
                      publicUrl |-> publicURL \o "/" \o bucketName \o "/"
                                      \o req[r].query["filename"]]]

\* C11: once startup has assigned them, minioClient, bucketName and publicURL
\* are never written, and under every interleaving of the handlers each
\* response is the one the invocation gives when it runs alone.
C11_Isolation ==
  /\ [][(pc \in {"Run", "serving", "exited"}) =>
          (/\ minioClient' = minioClient
           /\ bucketName' = bucketName
           /\ publicURL' = publicURL)]_vars
  /\ [](\A r \in Reqs : Done(r) => req[r].resps = << AloneResponse(r) >>)

\* two invocations for different filenames overlapped: the one that began
\* second returned first, and both were answered with a URL
C11_Witness ==
  /\ Signed(1)
  /\ Signed(2)
  /\ req[1].query["filename"] # req[2].query["filename"]
  /\ \E i, j \in 1..Len(log) : i < j /\ log[i].req = 2 /\ log[j].req = 1

\* C12: a handler calls the signing client at most once, exactly once when
\* both parameters are non-empty; a failed call is the request's only call
\* and is answered with 500 at once.
C12_SingleAttempt ==
  \A r \in Reqs :
    /\ Len(req[r].calls) <= 1
    /\ Received(r) => (Len(req[r].calls) = 1 <=> ~Invalid(r))
    /\ req[r].state = "signing" => req[r].result = << >>
    /\ (Len(req[r].result) = 1 /\ ~req[r].result[1].ok)
         => /\ Done(r)
            /\ Len(req[r].calls) = 1
            /\ Len(req[r].resps) = 1
            /\ req[r].resps[1].status = 500

\* both requests of the run failed to sign, each after one call
C12_Witness ==
  /\ \A r \in Reqs : SignFailed(r) /\ Len(req[r].calls) = 1
  /\ req[1].result[1].err = "dial tcp: connection refused"

\* C13: a request that fails validation is answered 400 without a call of the
\* signing client, without a read of the client handle and without a fault
\* entry in the log, also when the client handle is nil.
C13_ValidationFirst ==
  \A r \in Reqs :
    (Received(r) /\ Invalid(r))
      => /\ Done(r)
         /\ req[r].resps =
              << [status |-> 400, body |-> [error |-> "Missing filename or type"]] >>
         /\ req[r].calls = << >>
         /\ ~req[r].readsClient
         /\ \A i \in 1..Len(log) : log[i].req = r => log[i].level = "GIN"

\* with a nil client handle, every request of the run failed validation and
\* was answered
C13_Witness ==
  /\ ~minioClient.set
  /\ pc = "serving"
  /\ \A r \in Reqs : Done(r) /\ Invalid(r) /\ req[r].resps[1].status = 400
  /\ \E r \in Reqs : DOMAIN req[r].query = {}

\* C14: a request is answered 400 only if filename or type is absent or
\* empty; every other request reaches the signing call and is answered 200 or
\* 500 by the outcome of that call alone.
C14_OnlyEmptiness ==
  \A r \in Reqs :
    /\ (Done(r) /\ req[r].resps[1].status = 400) => Invalid(r)
    /\ (Received(r) /\ ~Invalid(r))
         => /\ Len(req[r].calls) = 1
            /\ Done(r) => /\ Len(req[r].result) = 1
                          /\ req[r].resps[1].status =
                               IF req[r].result[1].ok THEN 200 ELSE 500

\* the same filename with a path separator and a space was answered 200 once
\* and 500 once
C14_Witness ==
  \E r1, r2 \in Reqs :
    /\ Signed(r1)
    /\ SignFailed(r2)
    /\ req[r1].query = req[r2].query
    /\ req[r1].query["filename"] = "dir/b c.txt"
    /\ req[r1].resps[1].status = 200
    /\ req[r2].resps[1].status = 500

\* C15: no logging function of pkg/utils runs before InitLogger has created
\* its logger, and the fatal message of a configuration failure is logged.
C15_LoggerInitialized ==
  /\ \A i \in 1..Len(log) :
       ~(log[i].level = "PANIC" /\ log[i].msg = "nil pointer dereference")
  /\ (build = "utils" /\ cause = "config")
       => \E i \in 1..Len(log) :
            log[i].level = "FATAL" /\ log[i].msg = "Error loading .env file: %v"

\* the status the claim gives r's response
ExpectedStatus(r) ==
  IF Invalid(r) THEN 400
  ELSE IF ~req[r].result[1].ok THEN 500 ELSE 200

\* C16: in a running server a handler that waits for the signing client can
\* always go on to its response, and a finished handler has written exactly
\* one response, with status 400, 500 or 200 by (filename empty, type empty,
\* signing outcome); an unfinished one has written none.
C16_OneResponse ==
  build # "test" =>
    \A r \in Reqs :
      /\ req[r].state \in {"idle", "signing", "done"}
      /\ req[r].state = "signing" => ENABLED SignReturn(r)
      /\ Done(r) => /\ Len(req[r].resps) = 1
                    /\ req[r].resps[1].status \in {200, 400, 500}
                    /\ req[r].resps[1].status = ExpectedStatus(r)
      /\ ~Done(r) => req[r].resps = << >>

\* a server has answered one request 400 and another 500
C16_Witness ==
  /\ build # "test"
  /\ \E r1, r2 \in Reqs :
       /\ Done(r1)
       /\ Done(r2)
       /\ req[r1].resps[1].status = 400
       /\ req[r2].resps[1].status = 500
====
